---- MODULE Spec2Model ----
(***************************************************************************)
(* A model of ask.py: the search -> scrape -> chunk -> save -> query ->     *)
(* inference -> output pipeline of search_extract_summarize and the        *)
(* methods of class Ask it calls.                                          *)
(*                                                                         *)
(* A text is a sequence of one-character strings.  A Python dict is a      *)
(* record [keys, val]: keys is the sequence of keys in insertion order     *)
(* (the order .items() iterates in), val the function from key to value.   *)
(* Calls into libraries (requests, BeautifulSoup, vectordb, the chat       *)
(* model) are nondeterministic choices over what they can hand back,       *)
(* a raised exception included.                                            *)
(***************************************************************************)
EXTENDS Integers, Sequences, FiniteSets, TLC

VARIABLES pc, env, size, overlap, links, scrape_i, attempted, scrape_results,
          chunking_results, save_i, memory, searches, results, context,
          answer, output, err

vars == <<pc, env, size, overlap, links, scrape_i, attempted, scrape_results,
          chunking_results, save_i, memory, searches, results, context,
          answer, output, err>>

(***************************************************************************)
(* Bounds of the model.                                                    *)
(***************************************************************************)
\* longest text handed to chunk_results in SpecChunk
MaxTextLen == 4
\* largest size and overlap argument tried in SpecChunk (smallest is -1)
MaxSize == 4
\* most links a search response carries
MaxLinks == 2
\* longest raw body text of a scraped page
MaxBodyLen == 2
\* largest chunk size the pipeline is run with
MaxChunk == 2
\* most entries a vector search hands back in the model
MaxResults == 2

\* top_n of Ask.vector_search
TopN == 10

URLS == {"u1", "u2"}
\* a search result without a usable link (link missing or "")
NoLink == "nolink"
EnvNames == {"SEARCH_API_KEY", "SEARCH_PROJECT_KEY", "LLM_API_KEY"}

Min(a, b) == IF a < b THEN a ELSE b
Max(a, b) == IF a > b THEN a ELSE b

SeqsUpTo(S, n) == UNION {[1..k -> S] : k \in 0..n}

EmptyDict == [keys |-> <<>>, val |-> <<>>]

\* d[k] = v of a Python dict: a new key goes last, an old key keeps its place
DictSet(d, k, v) ==
    IF \E j \in 1..Len(d.keys) : d.keys[j] = k
    THEN [keys |-> d.keys, val |-> [d.val EXCEPT ![k] = v]]
    ELSE [keys |-> Append(d.keys, k),
          val  |-> [x \in DOMAIN d.val \cup {k} |-> IF x = k THEN v ELSE d.val[x]]]

DictKeys(d) == {d.keys[j] : j \in 1..Len(d.keys)}

(***************************************************************************)
(* Python built-ins used by chunk_results.                                 *)
(***************************************************************************)
\* mutant of PySlice: the upper bound taken as inclusive
PySliceInclusive(text, lo, hi) ==
    LET L  == Len(text)
        l0 == IF lo < 0 THEN Max(lo + L, 0) ELSE Min(lo, L)
        h0 == IF hi + 1 < 0 THEN Max(hi + 1 + L, 0) ELSE Min(hi + 1, L)
    IN  IF l0 < h0 THEN SubSeq(text, l0 + 1, h0) ELSE <<>>

\* text[lo:hi]: a negative bound counts from the end, both are clamped to
\* [0, len(text)], and an empty or inverted range gives the empty text
PySlice(text, lo, hi) ==
    LET L  == Len(text)
        l0 == IF lo < 0 THEN Max(lo + L, 0) ELSE Min(lo, L)
        h0 == IF hi < 0 THEN Max(hi + L, 0) ELSE Min(hi, L)
    IN  IF l0 < h0 THEN SubSeq(text, l0 + 1, h0) ELSE <<>>

\* list(range(0, stop, step)) for step # 0:
\* 0, step, 2*step, ... below stop when step > 0, nothing when step < 0
RECURSIVE RangeFrom(_, _, _)
RangeFrom(pos, stop, step) ==
    IF pos < stop THEN <<pos>> \o RangeFrom(pos + step, stop, step) ELSE <<>>

PyRange(stop, step) == IF step > 0 THEN RangeFrom(0, stop, step) ELSE <<>>

(***************************************************************************)
(* Ask.chunk_results                                                       *)
(***************************************************************************)
\* mutants of ChunkText: a final window shorter than size is dropped; the
\* windows advance by size instead of size - overlap
ChunkTextDropShortTail(text, sz, ov) ==
    LET ps == PyRange(Len(text), sz - ov)
        full == SelectSeq(ps, LAMBDA p : p + sz <= Len(text))
    IN  [k \in 1..Len(full) |-> PySlice(text, full[k], full[k] + sz)]

ChunkTextNoOverlap(text, sz, ov) ==
    LET ps == PyRange(Len(text), sz)
    IN  [k \in 1..Len(ps) |-> PySlice(text, ps[k], ps[k] + sz)]

\* the inner loop: the chunks of one text, for a stride size - overlap # 0
ChunkText(text, sz, ov) ==
    LET ps == PyRange(Len(text), sz - ov)
    IN  [k \in 1..Len(ps) |-> PySlice(text, ps[k], ps[k] + sz)]

\* the outer loop.  range() raises ValueError for a step of 0, which the
\* loop reaches at its first document: an empty mapping never reaches it.
ChunkResults(sr, sz, ov) ==
    IF sz - ov = 0 /\ Len(sr.keys) > 0
    THEN [raised |-> TRUE, value |-> EmptyDict]
    ELSE [raised |-> FALSE,
          value  |-> [keys |-> sr.keys,
                      val  |-> [u \in DOMAIN sr.val |-> ChunkText(sr.val[u], sz, ov)]]]

(***************************************************************************)
(* Ask.scrape_urls: the body text of one page                              *)
(***************************************************************************)
Space == " "

\* str.split(): the maximal runs of non-space characters, in order
RECURSIVE SplitFrom(_, _, _)
SplitFrom(raw, word, acc) ==
    IF raw = <<>>
    THEN IF word = <<>> THEN acc ELSE Append(acc, word)
    ELSE IF Head(raw) = Space
         THEN SplitFrom(Tail(raw), <<>>, IF word = <<>> THEN acc ELSE Append(acc, word))
         ELSE SplitFrom(Tail(raw), Append(word, Head(raw)), acc)

PySplit(raw) == SplitFrom(raw, <<>>, <<>>)

\* " ".join(words)
RECURSIVE PyJoin(_)
PyJoin(words) ==
    IF words = <<>> THEN <<>>
    ELSE IF Len(words) = 1 THEN words[1]
    ELSE words[1] \o <<Space>> \o PyJoin(Tail(words))

\* " ".join(body_text.split()).strip()
BodyText(raw) == PyJoin(PySplit(raw))

\* The raw texts tried: position i holds a space or the letter of position i
\* (a, b, a, b, ...), so that windows at different offsets differ in content.
Letter(i) == IF i % 2 = 1 THEN "a" ELSE "b"

RawBodies ==
    {r \in SeqsUpTo({"a", "b", Space}, MaxBodyLen) :
        \A i \in 1..Len(r) : r[i] \in {Space, Letter(i)}}

\* what fetching and parsing one page can give: an exception anywhere in the
\* try block, a document without a body tag, or a body with its raw text

PageOutcomes ==
    {[kind |-> "exception", raw |-> <<>>], [kind |-> "nobody", raw |-> <<>>]}
    \cup {[kind |-> "body", raw |-> r] : r \in RawBodies}

(***************************************************************************)
(* Ask.search_web: from the decoded response to the list of links           *)
(***************************************************************************)
\* kind: "raise" (requests.get or json.loads raised), "none" (no response),
\* "error" (an "error" key), "noinfo" (no "searchInformation" key), "ok".
\* total: the value compared with 0.  items: the "link" of each result item.
NoItems == <<>>

SearchResponses ==
    {[kind |-> k, total |-> 0, items |-> NoItems] :
        k \in {"raise", "none", "error", "noinfo"}}
    \cup {[kind |-> "ok", total |-> t, items |-> it] :
            t \in {0, 1}, it \in SeqsUpTo(URLS \cup {NoLink}, MaxLinks)}

\* found_links: the items' links, the missing and empty ones left out
FoundLinks(items) == SelectSeq(items, LAMBDA l : l # NoLink)

SearchWebRaises(resp) == resp.kind # "ok"

SearchWebLinks(resp) ==
    IF resp.total = 0 THEN <<>>
    ELSE IF Len(resp.items) = 0 THEN <<>>
    ELSE FoundLinks(resp.items)

(***************************************************************************)
(* Ask.save_to_db: the memory.save calls of one pass, in the order made     *)
(***************************************************************************)
\* enumerate(chunks): index i from 0
SaveCallsOf(url, chunks) ==
    [k \in 1..Len(chunks) |->
        [chunk |-> chunks[k], metadata |-> [url |-> url, chunk |-> k - 1]]]

RECURSIVE SaveCallsFrom(_, _)
SaveCallsFrom(cr, d) ==
    IF d > Len(cr.keys) THEN <<>>
    ELSE SaveCallsOf(cr.keys[d], cr.val[cr.keys[d]]) \o SaveCallsFrom(cr, d + 1)

\* mutant of SaveCalls: one index running on across the sources
SaveCallsRunningIndex(cr) ==
    LET flat == SaveCallsFrom(cr, 1)
    IN  [k \in 1..Len(flat) |->
            [chunk |-> flat[k].chunk,
             metadata |-> [url |-> flat[k].metadata.url, chunk |-> k - 1]]]

SaveCalls(cr) == SaveCallsFrom(cr, 1)

(***************************************************************************)
(* Ask.vector_search, Ask.run_inference and the printed output             *)
(***************************************************************************)
Injective(f) == \A i, j \in DOMAIN f : i # j => f[i] # f[j]

\* memory.search(query, top_n=10): at most top_n of the stored entries, each
\* at most once, in an order the library chooses
SearchPicks(mem) ==
    {p \in SeqsUpTo(1..Len(mem), Min(Min(TopN, MaxResults), Len(mem))) : Injective(p)}

\* the context lines "[i+1] chunk" of run_inference, i from enumerate
ContextOf(matched) ==
    [k \in 1..Len(matched) |-> [ref |-> (k - 1) + 1, text |-> matched[k].chunk]]

\* mutant of OutputOf: the references numbered by i instead of i + 1
OutputOfZeroBased(ans, res) ==
    <<[kind |-> "answer", n |-> 0, text |-> ans], [kind |-> "heading", n |-> 0, text |-> "References"]>>
    \o [k \in 1..Len(res) |-> [kind |-> "ref", n |-> k - 1, text |-> res[k].metadata.url]]

\* the click.echo calls: the answer, the heading, then "[i+1] url" per result
OutputOf(ans, res) ==
    <<[kind |-> "answer", n |-> 0, text |-> ans], [kind |-> "heading", n |-> 0, text |-> "References"]>>
    \o [k \in 1..Len(res) |-> [kind |-> "ref", n |-> (k - 1) + 1, text |-> res[k].metadata.url]]

(***************************************************************************)
(* search_extract_summarize: the pipeline, one action per stage or loop     *)
(* iteration.  pc is the stage about to run.                                *)
(***************************************************************************)
\* The program chunks with size 1000 and overlap 100.  The model runs the
\* pipeline with every valid pair up to MaxChunk, so that pages of a few
\* characters split into several chunks.
PipelineParams ==
    {p \in (1..MaxChunk) \X (0..MaxChunk) : p[2] < p[1]}

Blank ==
    /\ links = <<>>
    /\ scrape_i = 1
    /\ attempted = <<>>
    /\ scrape_results = EmptyDict
    /\ chunking_results = EmptyDict
    /\ save_i = 1
    /\ memory = <<>>
    /\ searches = 0
    /\ results = <<>>
    /\ context = <<>>
    /\ answer = ""
    /\ output = <<>>
    /\ err = ""

Init ==
    /\ pc = "construct"
    /\ env \in SUBSET EnvNames
    /\ \E p \in PipelineParams : size = p[1] /\ overlap = p[2]
    /\ Blank

\* Ask.__init__: read_env_variables raises when a variable is missing
Construct ==
    /\ pc = "construct"
    /\ IF env = EnvNames
       THEN pc' = "search" /\ err' = err
       ELSE pc' = "error" /\ err' = "env"
    /\ UNCHANGED <<env, size, overlap, links, scrape_i, attempted, scrape_results,
                   chunking_results, save_i, memory, searches, results, context,
                   answer, output>>

SearchWeb ==
    /\ pc = "search"
    /\ \E resp \in SearchResponses :
         IF SearchWebRaises(resp)
         THEN pc' = "error" /\ err' = "search" /\ links' = links
         ELSE pc' = "scrape" /\ err' = err /\ links' = SearchWebLinks(resp)
    /\ UNCHANGED <<env, size, overlap, scrape_i, attempted, scrape_results,
                   chunking_results, save_i, memory, searches, results, context,
                   answer, output>>

\* mutant of ScrapeOne: a page without a body is kept with an empty text
ScrapeOneKeepsNoBody(sr, url, page) ==
    IF page.kind = "body" THEN DictSet(sr, url, BodyText(page.raw))
    ELSE IF page.kind = "nobody" THEN DictSet(sr, url, <<>>)
    ELSE sr

\* scrape_results after one iteration of the loop over urls
ScrapeOne(sr, url, page) ==
    IF page.kind = "body" THEN DictSet(sr, url, BodyText(page.raw)) ELSE sr

\* one iteration of the loop of scrape_urls; attempted logs each session.get
\* call with what came of it
ScrapeUrl ==
    /\ pc = "scrape"
    /\ scrape_i <= Len(links)
    /\ \E page \in PageOutcomes :
         /\ scrape_results' = ScrapeOne(scrape_results, links[scrape_i], page)
         /\ attempted' = Append(attempted, [url |-> links[scrape_i], kind |-> page.kind])
    /\ scrape_i' = scrape_i + 1
    /\ UNCHANGED <<pc, env, size, overlap, links, chunking_results, save_i, memory,
                   searches, results, context, answer, output, err>>

\* the loop is over: return scrape_results
ScrapeReturn ==
    /\ pc = "scrape"
    /\ scrape_i > Len(links)
    /\ pc' = "chunk"
    /\ UNCHANGED <<env, size, overlap, links, scrape_i, attempted, scrape_results,
                   chunking_results, save_i, memory, searches, results, context,
                   answer, output, err>>

\* ask.chunk_results(scrape_results, size, overlap)
Chunk ==
    /\ pc = "chunk"
    /\ LET r == ChunkResults(scrape_results, size, overlap)
       IN  IF r.raised
           THEN pc' = "error" /\ err' = "ValueError"
                /\ chunking_results' = chunking_results
           ELSE pc' = "save" /\ err' = err /\ chunking_results' = r.value
    /\ UNCHANGED <<env, size, overlap, links, scrape_i, attempted, scrape_results,
                   save_i, memory, searches, results, context, answer, output>>

\* one memory.save call of save_to_db: it stores the entry, or it raises and
\* the exception leaves save_to_db and search_extract_summarize.  memory is
\* the list of the entries handed to memory.save by the calls that returned,
\* in call order; Memory() starts empty.
SaveChunk ==
    /\ pc = "save"
    /\ save_i <= Len(SaveCalls(chunking_results))
    /\ \E ok \in BOOLEAN :
         IF ok
         THEN /\ memory' = Append(memory, SaveCalls(chunking_results)[save_i])
              /\ save_i' = save_i + 1
              /\ pc' = pc /\ err' = err
         ELSE /\ pc' = "error" /\ err' = "save"
              /\ memory' = memory /\ save_i' = save_i
    /\ UNCHANGED <<env, size, overlap, links, scrape_i, attempted, scrape_results,
                   chunking_results, searches, results, context, answer, output>>

SaveReturn ==
    /\ pc = "save"
    /\ save_i > Len(SaveCalls(chunking_results))
    /\ pc' = "query"
    /\ UNCHANGED <<env, size, overlap, links, scrape_i, attempted, scrape_results,
                   chunking_results, save_i, memory, searches, results, context,
                   answer, output, err>>

\* ask.vector_search(query): memory.search returns entries or raises
VectorSearch ==
    /\ pc = "query"
    /\ searches' = searches + 1
    /\ \/ /\ \E p \in SearchPicks(memory) :
               results' = [k \in 1..Len(p) |-> memory[p[k]]]
          /\ pc' = "inference" /\ err' = err
       \/ /\ pc' = "error" /\ err' = "query" /\ results' = results
    /\ UNCHANGED <<env, size, overlap, links, scrape_i, attempted, scrape_results,
                   chunking_results, save_i, memory, context, answer, output>>

\* ask.run_inference: build the context, call the chat model; the call
\* raises, returns None (an exception is raised) or returns the answer
RunInference ==
    /\ pc = "inference"
    /\ context' = ContextOf(results)
    /\ \E reply \in {"raise", "none", "ok"} :
         IF reply = "ok"
         THEN pc' = "output" /\ answer' = "answer" /\ err' = err
         ELSE pc' = "error" /\ answer' = answer /\ err' = "inference"
    /\ UNCHANGED <<env, size, overlap, links, scrape_i, attempted, scrape_results,
                   chunking_results, save_i, memory, searches, results, output>>

\* the click.echo calls that end search_extract_summarize
PrintOutput ==
    /\ pc = "output"
    /\ output' = OutputOf(answer, results)
    /\ pc' = "done"
    /\ UNCHANGED <<env, size, overlap, links, scrape_i, attempted, scrape_results,
                   chunking_results, save_i, memory, searches, results, context,
                   answer, err>>

Next ==
    \/ Construct
    \/ SearchWeb
    \/ ScrapeUrl
    \/ ScrapeReturn
    \/ Chunk
    \/ SaveChunk
    \/ SaveReturn
    \/ VectorSearch
    \/ RunInference
    \/ PrintOutput

Spec == Init /\ [][Next]_vars

(***************************************************************************)
(* chunk_results on its own: any mapping of up to two sources, any size     *)
(* and overlap from -1 up, the invalid pairs included.                      *)
(***************************************************************************)
ScenarioTen == <<"A", "B", "C", "D", "E", "F", "G", "H", "I", "J">>
ScenarioEleven == ScenarioTen \o <<"K">>

ChunkTexts == SeqsUpTo({"a", "b"}, MaxTextLen) \cup {ScenarioTen, ScenarioEleven}

ChunkInputs ==
    UNION {{[keys |-> ks, val |-> v] : v \in [{ks[j] : j \in 1..Len(ks)} -> ChunkTexts]} :
             ks \in {q \in SeqsUpTo(URLS, Cardinality(URLS)) : Injective(q)}}

\* chunk_results about to be called on a mapping that scrape_urls returned
InitChunk ==
    /\ pc = "chunk"
    /\ env = EnvNames
    /\ size \in -1..MaxSize
    /\ overlap \in -1..MaxSize
    /\ scrape_results \in ChunkInputs
    /\ links = scrape_results.keys
    /\ scrape_i = Len(links) + 1
    /\ attempted = [j \in 1..Len(links) |-> [url |-> links[j], kind |-> "body"]]
    /\ chunking_results = EmptyDict
    /\ save_i = 1
    /\ memory = <<>>
    /\ searches = 0
    /\ results = <<>>
    /\ context = <<>>
    /\ answer = ""
    /\ output = <<>>
    /\ err = ""

NextChunk == Chunk

SpecChunk == InitChunk /\ [][NextChunk]_vars

(***************************************************************************)
(* Properties of chunk_results, checked under SpecChunk.                    *)
(***************************************************************************)
ValidParams(sz, ov) == sz > 0 /\ 0 <= ov /\ ov < sz

CeilDiv(a, b) == (a + b - 1) \div b

\* the characters text[p : min(p + sz, L)] for p = (j - 1) * (sz - ov)
Window(text, j, sz, ov) ==
    SubSeq(text, (j - 1) * (sz - ov) + 1, Min((j - 1) * (sz - ov) + sz, Len(text)))

Returned == pc = "save"

\* C1: for valid (size, overlap), chunk_results returns, and for every source
\* its fragments are exactly text[p : min(p + size, L)] for p = 0, stride,
\* 2*stride, ... while p < L (stride = size - overlap): each is non-empty,
\* together they cover every index of [0, L), and a text of length 0 gives none.
C1_ChunkCoverage ==
    (pc # "chunk" /\ ValidParams(size, overlap)) =>
        /\ Returned
        /\ chunking_results.keys = scrape_results.keys
        /\ \A u \in DictKeys(scrape_results) :
             LET text   == scrape_results.val[u]
                 ch     == chunking_results.val[u]
                 L      == Len(text)
                 stride == size - overlap
             IN  /\ Len(ch) = CeilDiv(L, stride)
                 /\ \A j \in 1..Len(ch) :
                      ch[j] = Window(text, j, size, overlap) /\ ch[j] # <<>>
                 /\ \A idx \in 1..L : \E j \in 1..Len(ch) :
                      (j - 1) * stride < idx /\ idx <= (j - 1) * stride + Len(ch[j])
                 /\ (L = 0 => ch = <<>>)

C1_Witness ==
    /\ Returned /\ ValidParams(size, overlap) /\ overlap > 0
    /\ \E u, v \in DictKeys(scrape_results) :
         /\ Len(scrape_results.val[u]) = 0
         /\ chunking_results.val[u] = <<>>
         /\ Len(chunking_results.val[v]) >= 3
         /\ Len(chunking_results.val[v][Len(chunking_results.val[v])]) < size

\* C2 as stated: "ABCDEFGHIJ" with size 4 and overlap 1 gives exactly "ABCD",
\* "DEFG", "GHIJ" at list indices 0, 1, 2 and no further fragment;
\* "ABCDEFGHIJK" gives those three and "K" at index 3.
C2_ScenarioThreeFragments ==
    (Returned /\ size = 4 /\ overlap = 1) =>
        \A u \in DictKeys(scrape_results) :
             /\ scrape_results.val[u] = ScenarioTen =>
                  chunking_results.val[u] =
                      << <<"A", "B", "C", "D">>, <<"D", "E", "F", "G">>,
                         <<"G", "H", "I", "J">> >>
             /\ scrape_results.val[u] = ScenarioEleven =>
                  chunking_results.val[u] =
                      << <<"A", "B", "C", "D">>, <<"D", "E", "F", "G">>,
                         <<"G", "H", "I", "J">>, <<"K">> >>

\* C2 amended: with size 4 and overlap 1 the windows start at 0, 3, 6 and 9:
\* "ABCDEFGHIJ" gives "ABCD", "DEFG", "GHIJ", "J" at list indices 0..3 and
\* "ABCDEFGHIJK" gives "ABCD", "DEFG", "GHIJ", "JK" at list indices 0..3.
C2_ScenarioFourFragments ==
    (pc # "chunk" /\ size = 4 /\ overlap = 1) =>
        /\ Returned
        /\ \A u \in DictKeys(scrape_results) :
             /\ scrape_results.val[u] = ScenarioTen =>
                  chunking_results.val[u] =
                      << <<"A", "B", "C", "D">>, <<"D", "E", "F", "G">>,
                         <<"G", "H", "I", "J">>, <<"J">> >>
             /\ scrape_results.val[u] = ScenarioEleven =>
                  chunking_results.val[u] =
                      << <<"A", "B", "C", "D">>, <<"D", "E", "F", "G">>,
                         <<"G", "H", "I", "J">>, <<"J", "K">> >>

C2_Witness ==
    /\ Returned /\ size = 4 /\ overlap = 1
    /\ \E u, v \in DictKeys(scrape_results) :
         /\ scrape_results.val[u] = ScenarioTen
         /\ Len(chunking_results.val[u]) = 4
         /\ scrape_results.val[v] = ScenarioEleven
         /\ Len(chunking_results.val[v]) = 4

\* C3 as stated: for valid (size, overlap), every non-empty text shorter than
\* size gives exactly one fragment, the whole text.
C3_ShortTextOneFragment ==
    (Returned /\ ValidParams(size, overlap)) =>
        \A u \in DictKeys(scrape_results) :
            LET text == scrape_results.val[u]
            IN  (0 < Len(text) /\ Len(text) < size) =>
                    chunking_results.val[u] = <<text>>

\* C3 amended: for valid (size, overlap), the first fragment of every
\* non-empty text shorter than size is the whole text; it is the only
\* fragment exactly when the text is no longer than the stride size - overlap;
\* otherwise the suffixes text[p:] for p = stride, 2*stride, ... < L follow it.
C3_ShortTextFirstFragment ==
    (Returned /\ ValidParams(size, overlap)) =>
        \A u \in DictKeys(scrape_results) :
            LET text   == scrape_results.val[u]
                ch     == chunking_results.val[u]
                L      == Len(text)
                stride == size - overlap
            IN  (0 < L /\ L < size) =>
                    /\ Len(ch) >= 1
                    /\ ch[1] = text
                    /\ (Len(ch) = 1 <=> L <= stride)
                    /\ Len(ch) = CeilDiv(L, stride)
                    /\ \A j \in 2..Len(ch) : ch[j] = SubSeq(text, (j - 1) * stride + 1, L)

C3_Witness ==
    /\ Returned /\ ValidParams(size, overlap)
    /\ \E u, v \in DictKeys(scrape_results) :
         /\ 0 < Len(scrape_results.val[u])
         /\ Len(scrape_results.val[u]) <= size - overlap
         /\ chunking_results.val[u] = <<scrape_results.val[u]>>
         /\ size - overlap < Len(scrape_results.val[v])
         /\ Len(scrape_results.val[v]) < size
         /\ Len(chunking_results.val[v]) > 1

\* C4: a call with size <= 0, overlap < 0 or overlap >= size ends in an
\* error, whatever the mapping; it never returns a result.
C4_InvalidParamsRaise ==
    (pc # "chunk" /\ ~ValidParams(size, overlap)) => pc = "error"

(***************************************************************************)
(* Properties of the pipeline, checked under Spec.                          *)
(***************************************************************************)
\* scrape_urls has returned
ScrapeOver ==
    \/ pc \in {"chunk", "save", "query", "inference", "output", "done"}
    \/ pc = "error" /\ err \notin {"env", "search"}

\* save_to_db has returned
SaveOver ==
    \/ pc \in {"query", "inference", "output", "done"}
    \/ pc = "error" /\ err \in {"query", "inference"}

\* the urls whose fetch gave a body
Succeeded == {attempted[j].url : j \in {i \in 1..Len(attempted) : attempted[i].kind = "body"}}

\* C5: scrape_urls attempts every url of the list in order, no failure ends
\* the loop or the run, the keys of its result are exactly the urls whose
\* fetch gave a body, and every stored entry belongs to such a url.
C5_ScrapeSkipsFailures ==
    /\ Len(attempted) <= Len(links)
    /\ \A j \in 1..Len(attempted) : attempted[j].url = links[j]
    /\ pc = "scrape" => Len(attempted) = scrape_i - 1
    /\ ScrapeOver => Len(attempted) = Len(links)
    /\ DictKeys(scrape_results) = Succeeded
    /\ DOMAIN scrape_results.val = Succeeded
    /\ \A k \in 1..Len(memory) : memory[k].metadata.url \in Succeeded

C5_Witness ==
    /\ pc = "query"
    /\ Len(links) = 2 /\ links[1] # links[2]
    /\ attempted[1].kind = "exception"
    /\ attempted[2].kind = "body"
    /\ DictKeys(scrape_results) = {links[2]}
    /\ memory # <<>>

\* C6: a memory.save call that fails during save_to_db does not end the run.
C6_SaveFailureTolerated ==
    err = "save" => pc # "error"

\* the stored entries of one source, in the order stored
EntriesOf(u) == SelectSeq(memory, LAMBDA e : e.metadata.url = u)

\* C8: the entries stored for a source carry the chunk indices 0, 1, 2, ...
\* in the order stored, the entry with index i holds the i-th window of the
\* source's text, and once save_to_db has returned the indices are exactly
\* 0..k-1 for the k fragments of that source, whatever the other sources are
\* and wherever the source stands among them.
C8_ChunkIndices ==
    \A u \in URLS :
        LET E == EntriesOf(u)
        IN  /\ E # <<>> => u \in DictKeys(scrape_results)
            /\ u \in DictKeys(scrape_results) =>
                 LET text == scrape_results.val[u]
                     k    == CeilDiv(Len(text), size - overlap)
                 IN  /\ Len(E) <= k
                     /\ SaveOver => Len(E) = k
                     /\ \A i \in 1..Len(E) :
                          /\ E[i].metadata.chunk = i - 1
                          /\ E[i].chunk = Window(text, i, size, overlap)

C8_Witness ==
    /\ SaveOver
    /\ chunking_results.keys = <<"u2", "u1">>
    /\ Len(EntriesOf("u1")) >= 2
    /\ Len(EntriesOf("u2")) >= 2
    /\ memory[1].metadata.url = "u2"

\* C9: the context given to the chat model labels the text of result i with
\* i; the output is the answer, the heading, then one line per result, line i
\* showing i and the url of result i; nothing is printed unless the chat
\* model returned an answer.
C9_CitationNumbers ==
    /\ pc \in {"output", "done"} =>
         /\ Len(context) = Len(results)
         /\ \A i \in 1..Len(results) :
              context[i].ref = i /\ context[i].text = results[i].chunk
    /\ pc = "done" =>
         /\ Len(output) = Len(results) + 2
         /\ output[1].kind = "answer" /\ output[1].text = answer
         /\ output[2].kind = "heading"
         /\ \A i \in 1..Len(results) :
              /\ output[i + 2].kind = "ref"
              /\ output[i + 2].n = i
              /\ output[i + 2].text = results[i].metadata.url
    /\ output # <<>> => (pc = "done" /\ answer # "" /\ err = "")
    /\ pc = "error" => output = <<>>

C9_Witness ==
    /\ pc = "done"
    /\ Len(results) = 2
    /\ results[1].metadata.url # results[2].metadata.url
    /\ results[1].chunk # results[2].chunk
    /\ output[3].text = results[1].metadata.url
    /\ output[4].text = results[2].metadata.url

\* C10: with the environment set, once every url has been attempted the run
\* goes on to the vector search: it does not end before the search is made.
C10_RetrievalAfterAttempts ==
    (env = EnvNames /\ ScrapeOver /\ pc = "error") => searches = 1

\* The vector search is made at most once and only after save_to_db has
\* returned; a run without links or without chunks makes no memory.save call,
\* gets an empty result from the empty store and prints no reference line.
RetrievalOnceAfterIngestion ==
    /\ searches <= 1
    /\ searches = 1 => SaveOver
    /\ pc \in {"inference", "output", "done"} => searches = 1
    /\ (SaveOver /\ memory = <<>> /\ pc # "error") => results = <<>>
    /\ (pc = "done" /\ memory = <<>>) => Len(output) = 2
    /\ (SaveCalls(chunking_results) = <<>> /\ pc = "error") => err # "save"

====
